---- MODULE Spec2Model ----
(***************************************************************************)
(* Model of backend/src/routes/jobTracker.js: the in-memory job tracker    *)
(* store and its five Express handlers (list, stats, create, update,       *)
(* delete).                                                                *)
(*                                                                         *)
(* Modelling decisions                                                     *)
(*  - jobTrackerStore is a JavaScript Map. It is modelled as a function    *)
(*    from tracker ids to records; its iteration order is insertion order, *)
(*    which is the order in which uuidv4() issued the keys (UUIDs[1],      *)
(*    UUIDs[2], ...), because a key is inserted once, by Create, and       *)
(*    Map.set() on an existing key keeps its position.                     *)
(*  - uuidv4() returns an identifier that was never returned before and    *)
(*    that no client has sent before; clients can send back, as jobId,     *)
(*    any identifier that has been issued to them.                         *)
(*  - new Date() reads the wall clock, which need not be monotonic: every  *)
(*    handler that reads it gets an arbitrary value of Times.              *)
(*  - The reachable stores are the product of what every field of every    *)
(*    record can hold, so each specification below draws the requests      *)
(*    from the inputs that vary the fields its properties are about and    *)
(*    keeps the other fields at one value.                                 *)
(*  - Body fields are strings; Undefined stands for an absent field and    *)
(*    "" for a field that is present but falsy.                            *)
(*  - A handler has no await: Node runs it to completion in one turn of    *)
(*    the event loop. Requests overlap only between their arrival and the  *)
(*    turn that runs their handler (inflight).                             *)
(***************************************************************************)
EXTENDS Integers, Sequences, FiniteSets, Bags, TLC

\* ---- bounds ----
MaxRecords == 2      \* number of tracker ids uuidv4() issues
MaxNotes == 2        \* notes kept per record
MaxInflight == 2     \* requests accepted and not yet handled

\* store:    jobTrackerStore, tracker id -> tracked job
\* nextId:   how many identifiers uuidv4() has returned, plus one
\* resp:     the last response sent, with the request it answers and the
\*           requests that were pending when its handler ran
\* inflight: the POST requests that have arrived and whose handler has not run
VARIABLES store, nextId, resp, inflight

vars == <<store, nextId, resp, inflight>>

Users == {"alice", "bob"}

\* values the wall clock shows (milliseconds)
Times == {0, 1}

Undefined == "undefined"
Null == "null"

\* JavaScript truthiness of a body field
Truthy(x) == x \notin {Undefined, ""}

\* the identifiers uuidv4() returns, in the order it returns them
UUIDs == <<"t1", "t2", "t3", "t4", "t5", "t6">>

uuidv4 == UUIDs[nextId]

Issued == {UUIDs[k] : k \in 1..(nextId - 1)}

\* Date.prototype.toISOString and the Date constructor on such a string
toISOString(ms) == [iso |-> ms]

DateParse(s) == s.iso

validStatuses == {"saved", "applied", "interviewing", "offered", "rejected"}

jobTrackerStore == [id \in {} |-> Undefined]

NoData == [none |-> TRUE]


Response(op, userId, trackerId, body, now, code, data, peers) ==
  [op |-> op, user |-> userId, trackerId |-> trackerId, body |-> body,
   now |-> now, code |-> code, data |-> data, peers |-> peers]

\* throw new ApiError(code, ...): nothing after the throw runs
Throw(op, userId, trackerId, body, code, peers) ==
  /\ resp' = Response(op, userId, trackerId, body, 0, code, NoData, peers)
  /\ UNCHANGED <<store, nextId>>

Init ==
  /\ store = jobTrackerStore
  /\ nextId = 1
  /\ resp = Response("none", Undefined, Undefined, NoData, 0, 0, NoData, EmptyBag)
  /\ inflight = EmptyBag

\* ---- GET / ----
RECURSIVE UserJobsFrom(_, _, _)
UserJobsFrom(st, userId, k) ==
  IF k = 0 THEN <<>>
  ELSE LET id == UUIDs[k]
           rest == UserJobsFrom(st, userId, k - 1)
       IN IF id \in DOMAIN st /\ st[id].userId = userId
          THEN Append(rest, [id |-> id] @@ st[id])
          ELSE rest

\* for (const [id, job] of jobTrackerStore) if (job.userId === userId) push
UserJobs(st, userId) == UserJobsFrom(st, userId, Len(UUIDs))

\* variant: the comparator's operands swapped (oldest first)
Compare_Ascending(a, b) == DateParse(a.createdAt) - DateParse(b.createdAt)

\* (a, b) => new Date(b.createdAt) - new Date(a.createdAt)
Compare(a, b) == DateParse(b.createdAt) - DateParse(a.createdAt)

RECURSIVE InsertSorted(_, _)
InsertSorted(sorted, x) ==
  IF sorted = <<>> THEN <<x>>
  ELSE IF Compare(Head(sorted), x) <= 0
       THEN <<Head(sorted)>> \o InsertSorted(Tail(sorted), x)
       ELSE <<x>> \o sorted

\* Array.prototype.sort is stable
RECURSIVE Sort(_)
Sort(jobs) ==
  IF jobs = <<>> THEN <<>>
  ELSE InsertSorted(Sort(SubSeq(jobs, 1, Len(jobs) - 1)), jobs[Len(jobs)])

ListResult(st, userId) ==
  LET userJobs == Sort(UserJobs(st, userId))
  IN [trackedJobs |-> userJobs, count |-> Len(userJobs)]

List(userId, peers) ==
  /\ resp' = Response("list", userId, Undefined, NoData, 0, 200,
                      ListResult(store, userId), peers)
  /\ UNCHANGED <<store, nextId>>

\* ---- GET /stats ----
CountStatus(userJobs, status) ==
  Len(SelectSeq(userJobs, LAMBDA j : j.status = status))

\* variant: the scan forgets the filter on job.userId
StatsResult_AllUsers(st, userId) ==
  LET count(status) == Cardinality({id \in DOMAIN st : st[id].status = status})
  IN [total |-> Cardinality(DOMAIN st),
      saved |-> count("saved"),
      applied |-> count("applied"),
      interviewing |-> count("interviewing"),
      offered |-> count("offered"),
      rejected |-> count("rejected")]

StatsResult(st, userId) ==
  LET userJobs == UserJobs(st, userId)
  IN [total |-> Len(userJobs),
      saved |-> CountStatus(userJobs, "saved"),
      applied |-> CountStatus(userJobs, "applied"),
      interviewing |-> CountStatus(userJobs, "interviewing"),
      offered |-> CountStatus(userJobs, "offered"),
      rejected |-> CountStatus(userJobs, "rejected")]

Stats(userId, peers) ==
  /\ resp' = Response("stats", userId, Undefined, NoData, 0, 200,
                      StatsResult(store, userId), peers)
  /\ UNCHANGED <<store, nextId>>

\* ---- POST / ----
\* x || d
OrElse(x, d) == IF Truthy(x) THEN x ELSE d

\* const { ..., status = 'saved' } = req.body
StatusOrDefault(status) == IF status = Undefined THEN "saved" ELSE status

\* variant: the scan compares the Map key, not job.jobId
AlreadyTracked_ByKey(st, userId, jobId) ==
  \E id \in DOMAIN st : st[id].userId = userId /\ id = jobId

\* variant: the scan tests job.userId !== userId
AlreadyTracked_OtherUser(st, userId, jobId) ==
  \E id \in DOMAIN st : st[id].userId # userId /\ st[id].jobId = jobId

\* the scan "Check if job already tracked"
AlreadyTracked(st, userId, jobId) ==
  \E id \in DOMAIN st : st[id].userId = userId /\ st[id].jobId = jobId

TrackedJob(userId, trackerId, body, now) ==
  [userId |-> userId,
   jobId |-> OrElse(body.jobId, trackerId),
   title |-> body.title,
   company |-> body.company,
   location |-> OrElse(body.location, "Remote"),
   jobType |-> OrElse(body.jobType, "Full-time"),
   salary |-> OrElse(body.salary, Null),
   applyLink |-> OrElse(body.applyLink, Null),
   description |-> OrElse(body.description, Null),
   status |-> StatusOrDefault(body.status),
   notes |-> <<>>,
   createdAt |-> toISOString(now),
   updatedAt |-> toISOString(now)]

\* jobTrackerStore.set(trackerId, job)
MapSet(st, trackerId, job) ==
  [id \in DOMAIN st \cup {trackerId} |-> IF id = trackerId THEN job ELSE st[id]]

\* variant: the delete drops every record of the target's owner
MapDelete_Owner(st, trackerId) ==
  [id \in {i \in DOMAIN st : st[i].userId # st[trackerId].userId} |-> st[id]]

\* jobTrackerStore.delete(trackerId)
MapDelete(st, trackerId) == [id \in DOMAIN st \ {trackerId} |-> st[id]]

Create(userId, body, now, peers) ==
  IF ~Truthy(body.title) \/ ~Truthy(body.company)
  THEN Throw("create", userId, Undefined, body, 400, peers)
  ELSE IF AlreadyTracked(store, userId, body.jobId)
  THEN Throw("create", userId, Undefined, body, 400, peers)
  ELSE /\ nextId <= MaxRecords
       /\ LET trackerId == uuidv4
              trackedJob == TrackedJob(userId, trackerId, body, now)
          IN /\ store' = MapSet(store, trackerId, trackedJob)
             /\ resp' = Response("create", userId, trackerId, body, now, 201,
                                 [id |-> trackerId] @@ trackedJob, peers)
       /\ nextId' = nextId + 1

\* ---- PUT /:trackerId ----
\* variant: updatedAt is refreshed only when a field was supplied
UpdatedJob_TouchOnChange(job, body, now) ==
  LET withStatus == IF Truthy(body.status)
                    THEN [job EXCEPT !.status = body.status]
                    ELSE job
      withNotes == IF Truthy(body.notes)
                   THEN [withStatus EXCEPT !.notes =
                           Append(@, [text |-> body.notes,
                                      createdAt |-> toISOString(now)])]
                   ELSE withStatus
  IN IF Truthy(body.status) \/ Truthy(body.notes)
     THEN [withNotes EXCEPT !.updatedAt = toISOString(now)]
     ELSE withNotes

\* variant: the note is put in front (unshift) instead of pushed
UpdatedJob_Prepend(job, body, now) ==
  LET withNotes == IF Truthy(body.notes)
                   THEN [job EXCEPT !.notes =
                           <<[text |-> body.notes,
                              createdAt |-> toISOString(now)]>> \o @]
                   ELSE job
      withStatus == IF Truthy(body.status)
                    THEN [withNotes EXCEPT !.status = body.status]
                    ELSE withNotes
  IN [withStatus EXCEPT !.updatedAt = toISOString(now)]

UpdatedJob(job, body, now) ==
  LET withStatus == IF Truthy(body.status)
                    THEN [job EXCEPT !.status = body.status]
                    ELSE job
      withNotes == IF Truthy(body.notes)
                   THEN [withStatus EXCEPT !.notes =
                           Append(@, [text |-> body.notes,
                                      createdAt |-> toISOString(now)])]
                   ELSE withStatus
  IN [withNotes EXCEPT !.updatedAt = toISOString(now)]

\* variant: updatedAt is written before the status is validated
Update_WriteThenValidate(trackerId, userId, body, now, peers) ==
  IF trackerId \notin DOMAIN store
  THEN Throw("update", userId, trackerId, body, 404, peers)
  ELSE IF store[trackerId].userId # userId
  THEN Throw("update", userId, trackerId, body, 403, peers)
  ELSE IF Truthy(body.status) /\ body.status \notin validStatuses
  THEN /\ store' = MapSet(store, trackerId,
                          [store[trackerId] EXCEPT !.updatedAt = toISOString(now)])
       /\ resp' = Response("update", userId, trackerId, body, 0, 400, NoData, peers)
       /\ UNCHANGED nextId
  ELSE /\ Truthy(body.notes) => Len(store[trackerId].notes) < MaxNotes
       /\ LET job == UpdatedJob(store[trackerId], body, now)
          IN /\ store' = MapSet(store, trackerId, job)
             /\ resp' = Response("update", userId, trackerId, body, now, 200,
                                 [id |-> trackerId] @@ job, peers)
       /\ UNCHANGED nextId

\* variant: the status is validated before the owner is checked
Update_StatusFirst(trackerId, userId, body, now, peers) ==
  IF trackerId \notin DOMAIN store
  THEN Throw("update", userId, trackerId, body, 404, peers)
  ELSE IF Truthy(body.status) /\ body.status \notin validStatuses
  THEN Throw("update", userId, trackerId, body, 400, peers)
  ELSE IF store[trackerId].userId # userId
  THEN Throw("update", userId, trackerId, body, 403, peers)
  ELSE /\ Truthy(body.notes) => Len(store[trackerId].notes) < MaxNotes
       /\ LET job == UpdatedJob(store[trackerId], body, now)
          IN /\ store' = MapSet(store, trackerId, job)
             /\ resp' = Response("update", userId, trackerId, body, now, 200,
                                 [id |-> trackerId] @@ job, peers)
       /\ UNCHANGED nextId

Update(trackerId, userId, body, now, peers) ==
  IF trackerId \notin DOMAIN store
  THEN Throw("update", userId, trackerId, body, 404, peers)
  ELSE IF store[trackerId].userId # userId
  THEN Throw("update", userId, trackerId, body, 403, peers)
  ELSE IF Truthy(body.status) /\ body.status \notin validStatuses
  THEN Throw("update", userId, trackerId, body, 400, peers)
  ELSE /\ Truthy(body.notes) => Len(store[trackerId].notes) < MaxNotes
       /\ LET job == UpdatedJob(store[trackerId], body, now)
          IN /\ store' = MapSet(store, trackerId, job)
             /\ resp' = Response("update", userId, trackerId, body, now, 200,
                                 [id |-> trackerId] @@ job, peers)
       /\ UNCHANGED nextId

\* ---- DELETE /:trackerId ----
Delete(trackerId, userId, peers) ==
  IF trackerId \notin DOMAIN store
  THEN Throw("delete", userId, trackerId, NoData, 404, peers)
  ELSE IF store[trackerId].userId # userId
  THEN Throw("delete", userId, trackerId, NoData, 403, peers)
  ELSE /\ store' = MapDelete(store, trackerId)
       /\ resp' = Response("delete", userId, trackerId, NoData, 0, 200,
                           NoData, peers)
       /\ UNCHANGED nextId

\* ---- requests ----
Body(jobId, title, company, status) ==
  [jobId |-> jobId, title |-> title, company |-> company,
   location |-> "NYC", jobType |-> Undefined, salary |-> "100k",
   applyLink |-> Undefined, description |-> "",
   status |-> status]

\* tracker ids a client can send: those issued, and one that never was
TrackerIdInputs == Issued \cup {"t0"}

ListReq == \E u \in Users : List(u, EmptyBag) /\ UNCHANGED inflight

StatsReq == \E u \in Users : Stats(u, EmptyBag) /\ UNCHANGED inflight

CreateReq(users, bodies, times) ==
  \E u \in users, b \in bodies, now \in times :
    Create(u, b, now, EmptyBag) /\ UNCHANGED inflight

UpdateReq(bodies, times) ==
  \E t \in TrackerIdInputs, u \in Users, b \in bodies, now \in times :
    Update(t, u, b, now, EmptyBag) /\ UNCHANGED inflight

DeleteReq ==
  \E t \in TrackerIdInputs, u \in Users :
    Delete(t, u, EmptyBag) /\ UNCHANGED inflight

\* ---- validation and authorization: every way a request can fail ----
CreateBodies ==
  {Body(j, "T", "C", Undefined) : j \in {Undefined, "j1"}}
    \cup {Body("j1", Undefined, "C", Undefined), Body("j1", "", "C", Undefined),
          Body("j1", "T", Undefined, Undefined)}

UpdateBodies ==
  [status : {Undefined, "applied", "bogus"}, notes : {Undefined}]

Next ==
  \/ ListReq
  \/ StatsReq
  \/ CreateReq(Users, CreateBodies, {0})
  \/ UpdateReq(UpdateBodies, Times)
  \/ DeleteReq

Spec == Init /\ [][Next]_vars

\* ---- statuses: every status a record can be given ----
StatusCreateBodies ==
  {Body(Undefined, "T", "C", st) : st \in {Undefined, "bogus"}}

StatusUpdateBodies ==
  [status : {Undefined, "", "bogus"} \cup validStatuses, notes : {Undefined}]

NextStatus ==
  \/ ListReq
  \/ StatsReq
  \/ CreateReq(Users, StatusCreateBodies, {0})
  \/ UpdateReq(StatusUpdateBodies, {0})
  \/ DeleteReq

SpecStatus == Init /\ [][NextStatus]_vars

\* ---- job ids: supplied by the caller, defaulted, and issued ids sent back ----
JobIdInputs == {Undefined, "", "j1", "j2"} \cup Issued

JobIdCreateBodies == {Body(j, "T", "C", Undefined) : j \in JobIdInputs}

JobIdUpdateBodies == [status : {Undefined}, notes : {Undefined}]

NextJobId ==
  \/ ListReq
  \/ StatsReq
  \/ CreateReq(Users, JobIdCreateBodies, {0})
  \/ UpdateReq(JobIdUpdateBodies, {0})
  \/ DeleteReq

SpecJobId == Init /\ [][NextJobId]_vars

\* ---- updates: what a successful update writes ----
DefaultBodies == {Body(Undefined, "T", "C", Undefined)}

EffectUpdateBodies ==
  [status : {Undefined, "", "applied"}, notes : {Undefined, "", "n1"}]

NextUpdate ==
  \/ ListReq
  \/ StatsReq
  \/ CreateReq({"alice"}, DefaultBodies, {0})
  \/ UpdateReq(EffectUpdateBodies, {1})
  \/ DeleteReq

SpecUpdate == Init /\ [][NextUpdate]_vars

\* ---- notes: the history of a record's notes ----
NotesUpdateBodies == [status : {Undefined}, notes : {Undefined, "", "n1", "n2"}]

NextNotes ==
  \/ ListReq
  \/ StatsReq
  \/ CreateReq({"alice"}, DefaultBodies, {0})
  \/ UpdateReq(NotesUpdateBodies, {0})
  \/ DeleteReq

SpecNotes == Init /\ [][NextNotes]_vars

\* ---- creation dates: the order of a listing ----
ListUpdateBodies == [status : {Undefined, "offered"}, notes : {Undefined}]

NextList ==
  \/ ListReq
  \/ StatsReq
  \/ CreateReq(Users, DefaultBodies, Times)
  \/ UpdateReq(ListUpdateBodies, {0})
  \/ DeleteReq

SpecList == Init /\ [][NextList]_vars

\* ---- overlapping requests ----
\* A POST has arrived (and is with verifyToken); its handler has not run yet.
Arrive(users, bodies) ==
  \E u \in users, b \in bodies :
    /\ BagCardinality(inflight) < MaxInflight
    /\ inflight' = inflight (+) SetToBag({[user |-> u, body |-> b]})
    /\ UNCHANGED <<store, nextId, resp>>

\* The event loop runs the handler of one of the pending requests, whichever.
Dispatch(times) ==
  \E r \in BagToSet(inflight), now \in times :
    /\ inflight' = inflight (-) SetToBag({r})
    /\ Create(r.user, r.body, now, inflight (-) SetToBag({r}))

ConcBodies == {Body(j, "T", "C", Undefined) : j \in {Undefined, "j1"}}

NextConc ==
  \/ Arrive(Users, ConcBodies)
  \/ Dispatch({0})
  \/ DeleteReq

SpecConc == Init /\ [][NextConc]_vars

\* ---- properties ----
Owned(st, userId) == {id \in DOMAIN st : st[id].userId = userId}

Carrying(st, userId, jobId) == {id \in Owned(st, userId) : st[id].jobId = jobId}

IsPrefix(s, t) == Len(s) <= Len(t) /\ SubSeq(t, 1, Len(s)) = s

Deleted == Issued \ DOMAIN store

Failed(r) == r.code \in {400, 403, 404}

\* C1: in every reachable state every stored record's status is one of saved,
\* applied, interviewing, offered, rejected.
C1_StatusAlwaysEnumerated ==
  \A id \in DOMAIN store :
    store[id].status \in {"saved", "applied", "interviewing", "offered", "rejected"}

\* C2: no two distinct records of one user carry the same jobId, whether the
\* jobId was supplied or defaulted to the tracker id; a Create with a supplied
\* jobId that a record of the caller already carries is answered 400 and the
\* store keeps exactly one such record.
C2_UniqueJobIdPerUser ==
  [][/\ \A a \in DOMAIN store', b \in DOMAIN store' :
          (a # b /\ store'[a].userId = store'[b].userId)
            => store'[a].jobId # store'[b].jobId
     /\ (/\ resp'.op = "create"
         /\ resp'.body.jobId \notin {Undefined, ""}
         /\ Carrying(store, resp'.user, resp'.body.jobId) # {})
          => /\ resp'.code = 400
             /\ store' = store
             /\ Cardinality(Carrying(store', resp'.user, resp'.body.jobId)) = 1
    ]_vars

\* a Create that sent back an issued tracker id as jobId was refused, while the
\* caller also owns a record with a jobId of its own choosing
C2_Witness ==
  /\ resp.op = "create"
  /\ resp.code = 400
  /\ resp.body.title = "T"
  /\ resp.body.jobId \in DOMAIN store
  /\ store[resp.body.jobId].jobId = resp.body.jobId
  /\ Cardinality(Carrying(store, resp.user, resp.body.jobId)) = 1
  /\ Carrying(store, resp.user, "j1") # {}

\* C3: a request that fails (Create 400; Update 404, 403 or 400; Delete 404 or
\* 403) leaves the store exactly as it was: no record added or removed and no
\* field of any record changed, updatedAt and notes included.
C3_FailureLeavesStore ==
  [][Failed(resp') => (store' = store /\ nextId' = nextId)]_vars

\* the owner's update with an invalid status was refused on a record that an
\* earlier update had changed
C3_Witness ==
  /\ resp.op = "update"
  /\ resp.code = 400
  /\ resp.trackerId \in DOMAIN store
  /\ store[resp.trackerId].status = "applied"
  /\ store[resp.trackerId].updatedAt # store[resp.trackerId].createdAt

\* C4: Update and Delete answer 404 for a tracker id with no record, whoever
\* calls; 403 for a record of another user, whatever the body; only the owner
\* gets 400 or success, and only the owner's request changes or removes a record.
C4_ExistenceThenOwnerThenStatus ==
  [][/\ resp'.op \in {"update", "delete"} =>
          LET t == resp'.trackerId
          IN /\ t \notin DOMAIN store => resp'.code = 404
             /\ (t \in DOMAIN store /\ store[t].userId # resp'.user)
                  => resp'.code = 403
             /\ resp'.code \in {200, 400}
                  => (t \in DOMAIN store /\ store[t].userId = resp'.user)
     /\ \A id \in DOMAIN store :
          (id \notin DOMAIN store' \/ store'[id] # store[id])
            => (resp'.user = store[id].userId /\ resp'.trackerId = id)
    ]_vars

\* another user's update with an invalid status was answered 403, not 400
C4_Witness ==
  /\ resp.op = "update"
  /\ resp.code = 403
  /\ resp.body.status = "bogus"
  /\ resp.trackerId \in DOMAIN store
  /\ store[resp.trackerId].userId # resp.user

\* C9: a successful Delete removes the targeted record and no other; a deleted
\* tracker id never returns to the store, is in no List result, and every later
\* Update or Delete on it, by any caller, is answered 404.
C9_DeleteIsFinal ==
  [][/\ (resp'.op = "delete" /\ resp'.code = 200) =>
          /\ resp'.trackerId \in DOMAIN store
          /\ DOMAIN store' = DOMAIN store \ {resp'.trackerId}
          /\ \A id \in DOMAIN store' : store'[id] = store[id]
     /\ \A id \in Deleted : id \notin DOMAIN store'
     /\ (resp'.op \in {"update", "delete"} /\ resp'.trackerId \in Deleted)
          => resp'.code = 404
     /\ resp'.op = "list" =>
          \A i \in 1..Len(resp'.data.trackedJobs) :
            resp'.data.trackedJobs[i].id \notin Deleted
     /\ resp'.op = "stats" =>
          resp'.data.total = Cardinality(Owned(store, resp'.user))
    ]_vars

\* an update of a deleted tracker id was answered 404 after a later Create had
\* put a new record in the store
C9_Witness ==
  /\ resp.op = "update"
  /\ resp.code = 404
  /\ resp.trackerId \in Deleted
  /\ \E i \in 1..(nextId - 1), k \in 1..(nextId - 1) :
       UUIDs[i] = resp.trackerId /\ k > i /\ UUIDs[k] \in DOMAIN store

\* what a successful update leaves alone: the record's other fields and the
\* other records
UpdateFrame(t) ==
  /\ DOMAIN store' = DOMAIN store
  /\ \A id \in DOMAIN store \ {t} : store'[id] = store[id]
  /\ [store'[t] EXCEPT !.status = "", !.notes = <<>>, !.updatedAt = ""]
       = [store[t] EXCEPT !.status = "", !.notes = <<>>, !.updatedAt = ""]

C6_NotesAppendOnly ==
  [][/\ \A id \in DOMAIN store \cap DOMAIN store' :
          IsPrefix(store[id].notes, store'[id].notes)
     /\ \A id \in DOMAIN store' \ DOMAIN store :
          /\ store'[id].notes = <<>>
          /\ id \notin Issued
    ]_vars

\* a second, different note was appended behind the first
C6_Witness ==
  /\ resp.op = "update"
  /\ resp.code = 200
  /\ resp.body.notes = "n2"
  /\ store[resp.trackerId].notes =
       <<[text |-> "n1", createdAt |-> [iso |-> 0]],
         [text |-> "n2", createdAt |-> [iso |-> 0]]>>

\* C7: Stats(userId) returns total = the number of records userId owns and, for
\* each of the five statuses, the number of records userId owns with that
\* status, 0 included; other users' records are not counted and the store is
\* not modified.
C7_StatsCounts ==
  [][resp'.op = "stats" =>
       /\ resp'.code = 200
       /\ DOMAIN resp'.data =
            {"total", "saved", "applied", "interviewing", "offered", "rejected"}
       /\ resp'.data.total = Cardinality(Owned(store, resp'.user))
       /\ \A st \in {"saved", "applied", "interviewing", "offered", "rejected"} :
            resp'.data[st] =
              Cardinality({id \in Owned(store, resp'.user) : store[id].status = st})
       /\ store' = store
    ]_vars

\* the caller owns one rejected record, another user owns the other record
C7_Witness ==
  /\ resp.op = "stats"
  /\ resp.data.total = 1
  /\ resp.data.rejected = 1
  /\ resp.data.saved = 0
  /\ Cardinality(DOMAIN store) = 2

\* C8: List(userId) returns exactly the caller's records, each once and as
\* stored, ordered by createdAt descending, with count the number returned, and
\* does not modify the store.
C8_ListOwnedNewestFirst ==
  [][resp'.op = "list" =>
       LET jobs == resp'.data.trackedJobs
       IN /\ resp'.code = 200
          /\ {jobs[i].id : i \in 1..Len(jobs)} = Owned(store, resp'.user)
          /\ Len(jobs) = Cardinality(Owned(store, resp'.user))
          /\ \A i \in 1..Len(jobs) :
               jobs[i] = [id |-> jobs[i].id] @@ store[jobs[i].id]
          /\ \A i \in 1..Len(jobs), j \in 1..Len(jobs) :
               i < j => jobs[i].createdAt.iso >= jobs[j].createdAt.iso
          /\ resp'.data.count = Len(jobs)
          /\ store' = store
    ]_vars

\* the caller's two records are listed in insertion order, because the first
\* inserted carries the later date
C8_Witness ==
  /\ resp.op = "list"
  /\ resp.data.count = 2
  /\ resp.data.trackedJobs[1].createdAt.iso > resp.data.trackedJobs[2].createdAt.iso
  /\ \E i \in 1..(nextId - 1), k \in 1..(nextId - 1) :
       /\ i < k
       /\ UUIDs[i] = resp.data.trackedJobs[1].id
       /\ UUIDs[k] = resp.data.trackedJobs[2].id

\* this step runs the handler of a Create that was pending while the handler
\* of another Create of the same user with the same supplied jobId ran and
\* inserted (the response before this one)
SecondOfTwoOverlapping ==
  /\ resp.op = "create"
  /\ resp.code = 201
  /\ resp.body.jobId \notin {Undefined, ""}
  /\ BagCardinality(inflight') < BagCardinality(inflight)
  /\ resp'.op = "create"
  /\ resp'.user = resp.user
  /\ resp'.body.jobId = resp.body.jobId
  /\ BagIn([user |-> resp'.user, body |-> resp'.body], resp.peers)

====
